---------------------------- MODULE Spec2Model ----------------------------
(***************************************************************************)
(* Host/session lifecycle of the ENet wrapper: the globals of              *)
(* src/src/core.cpp (server, initialized, host, conn), the flags of        *)
(* src/src/net.cpp (setup, connecting) and the operations on them.  The    *)
(* ENet library is the external transport binding: its state is the record *)
(* enet, and what it answers at each call is an input of the action.       *)
(***************************************************************************)
EXTENDS Integers, Sequences, FiniteSets, TLC

\* Bounds of the model.
MaxExtraInits == 1  \* enet_initialize calls that may succeed on top of the first
MaxHosts == 1       \* distinct host handles the binding can hand out
MaxPeers == 1       \* peer slots of a server host (the source asks for 32)
MaxEvents == 2      \* events the binding reports during one poll call
MaxBundles == 2     \* distinct callback bundles the application can install

\* Peer slots of a client host: the peer count Core_enet_client_create asks for.
ClientPeerCount == 1

NULL == 0           \* nullptr
Hosts == 1..MaxHosts
Peers == 1..MaxPeers
Bundles == 1..MaxBundles

VARIABLES
    server,         \* core.cpp: static bool server
    initialized,    \* core.cpp: static bool initialized
    host,           \* core.cpp: static ENetHost* host
    conn,           \* core.cpp: static ENetPeer* conn
    setup,          \* net.cpp: static bool setup
    connecting,     \* net.cpp: static bool connecting
    listener,       \* listener.cpp: static listen_interface listener
    enet,           \* the transport binding's own state
    ndebug,         \* the build: TRUE when assert() is compiled out
    alive,          \* FALSE once the process has aborted or crashed
    last            \* the last operation: its name, outcome, binding calls, pre-state

vars ==
    <<server, initialized, host, conn, setup, connecting, listener, enet, ndebug, alive,
      last>>

\* The binding before any call: not initialized, no host, no peer.  inits
\* counts the initializations not yet undone; unbalanced records a
\* deinitialization that had none to undo.
EnetInit ==
    [inits |-> 0, unbalanced |-> FALSE, hosts |-> {}, listening |-> FALSE,
     peers |-> {}, connected |-> {}, closing |-> {}]

\* The session state an operation works on, with the log of the binding
\* calls it makes and the error it ends with.
Cur ==
    [server |-> server, initialized |-> initialized, host |-> host, conn |-> conn,
     enet |-> enet, calls |-> <<>>, err |-> "none"]

\* The four globals of core.cpp, as a frame condition compares them.
Session(s) ==
    [server |-> s.server, initialized |-> s.initialized, host |-> s.host, conn |-> s.conn]

\* A call on the binding: its name and the handle passed or the value
\* answered (the result of enet_initialize, the handle of a create).  An
\* event that enet_host_service answers is logged under its kind, with its
\* peer.
Call(f, arg) == [f |-> f, arg |-> arg]

Log(s, f, arg) == [s EXCEPT !.calls = Append(@, Call(f, arg))]

Throw(s, e) == [s EXCEPT !.err = e]

\* Outcomes that end the process: a failed assert() calls abort(), and a
\* null or dangling handle passed to the binding is undefined behaviour.
Fatal ==
    {"AssertHost", "AssertServer", "AssertConn", "AssertInitialized",
     "AssertProtocol", "AssertListener", "UB"}

\* The role the globals encode (Core_server's contract: false when
\* uninitialized, without host, or a client).
Role ==
    IF server THEN "Server"
    ELSE IF host # NULL THEN "Client"
    ELSE "Uninitialized"

--------------------------------------------------------------------------
\* core.cpp

\* The peer slots of the live host: as many as its creation asked for.
Slots(en) == IF en.listening THEN 1..MaxPeers ELSE 1..ClientPeerCount

\* The peer slot the binding allocates next: ENet scans the host's peer array
\* for the first slot not in use.
FreePeer(en) ==
    LET free == Slots(en) \ en.peers IN
    IF free = {} THEN {}
    ELSE {CHOOSE p \in free : \A q \in free : p <= q}

\* The binding's enet_host_create, answering h: a handle not in use, or NULL.
\* A host created with an address listens for inbound connections.
EnetHostCreate(s, h, bind) ==
    LET c == Log(s, "createHost", h) IN
    IF h = NULL THEN c
    ELSE [c EXCEPT !.enet.hosts = @ \cup {h}, !.enet.listening = bind]

\* The binding's enet_host_connect, answering p: a free peer of the host, or
\* NULL.
EnetHostConnect(s, p) ==
    LET c == Log(s, "connect", p) IN
    IF p = NULL THEN c ELSE [c EXCEPT !.enet.peers = @ \cup {p}]

\* The binding's enet_host_destroy: it frees the host and its peers; a handle
\* that is not a live host is freed twice.
EnetHostDestroy(s, h) ==
    LET c == Log(s, "destroyHost", h) IN
    IF h \notin s.enet.hosts THEN Throw(c, "UB")
    ELSE [c EXCEPT !.enet.hosts = @ \ {h}, !.enet.listening = FALSE,
                   !.enet.peers = {}, !.enet.connected = {}, !.enet.closing = {}]

\* The binding's enet_deinitialize.
EnetDeinitialize(s) ==
    LET c == Log(s, "transportDeinit", NULL) IN
    IF s.enet.inits = 0 THEN [c EXCEPT !.enet.unbalanced = TRUE]
    ELSE [c EXCEPT !.enet.inits = @ - 1]

\* res is what enet_initialize() returns.
Core_enet_initialize(s, res) ==
    LET c == Log(s, "transportInit", res) IN
    IF res # 0 THEN Throw(c, "TransportInitError")
    ELSE [c EXCEPT !.enet.inits = @ + 1, !.initialized = TRUE]

\* Core_enet_server_create without its check of host.
Core_enet_server_create_NoHostCheck(s, h) ==
    IF ~s.initialized THEN Throw(s, "NotInitialized")
    ELSE LET c == [EnetHostCreate(s, h, TRUE) EXCEPT !.host = h] IN
         IF h = NULL THEN Throw(c, "HostCreationFailed")
         ELSE [c EXCEPT !.server = TRUE]

\* Core_enet_server_create setting the server flag before the null check.
Core_enet_server_create_FlagFirst(s, h) ==
    IF ~s.initialized THEN Throw(s, "NotInitialized")
    ELSE IF s.host # NULL THEN Throw(s, "HostAlreadyExists")
    ELSE LET c == [EnetHostCreate(s, h, TRUE) EXCEPT !.host = h, !.server = TRUE] IN
         IF h = NULL THEN Throw(c, "HostCreationFailed")
         ELSE c

\* h is what enet_host_create() returns; it is stored in host before the
\* null check.
Core_enet_server_create(s, h) ==
    IF ~s.initialized THEN Throw(s, "NotInitialized")
    ELSE IF s.host # NULL THEN Throw(s, "HostAlreadyExists")
    ELSE LET c == [EnetHostCreate(s, h, TRUE) EXCEPT !.host = h] IN
         IF h = NULL THEN Throw(c, "HostCreationFailed")
         ELSE [c EXCEPT !.server = TRUE]

\* Core_enet_client_create without its check of initialized.
Core_enet_client_create_NoInitCheck(s, h) ==
    IF s.host # NULL THEN Throw(s, "HostAlreadyExists")
    ELSE LET c == [EnetHostCreate(s, h, FALSE) EXCEPT !.host = h] IN
         IF h = NULL THEN Throw(c, "HostCreationFailed")
         ELSE [c EXCEPT !.server = FALSE]

Core_enet_client_create(s, h) ==
    IF ~s.initialized THEN Throw(s, "NotInitialized")
    ELSE IF s.host # NULL THEN Throw(s, "HostAlreadyExists")
    ELSE LET c == [EnetHostCreate(s, h, FALSE) EXCEPT !.host = h] IN
         IF h = NULL THEN Throw(c, "HostCreationFailed")
         ELSE [c EXCEPT !.server = FALSE]

\* p is what enet_host_connect() returns; it is stored in conn before the
\* null check.
Core_enet_client_connect(s, p) ==
    IF ~s.initialized THEN Throw(s, "NotInitialized")
    ELSE IF s.host = NULL THEN Throw(s, "NotAClientHost")
    ELSE LET c == [EnetHostConnect(s, p) EXCEPT !.conn = p] IN
         IF p = NULL THEN Throw(c, "ConnectRequestFailed")
         ELSE c

\* enet_peer_send and enet_host_flush on a handle.  A peer slot of the live
\* host is a valid argument (the binding refuses the packet when the slot is
\* not connected, and the code ignores the answer); a null pointer, or any
\* pointer once the host is gone, is not.
PeerSend(s, peer) ==
    LET c == Log(s, "send", peer) IN
    IF s.host \in s.enet.hosts /\ peer \in Slots(s.enet) THEN c ELSE Throw(c, "UB")

\* Core_enet_server_send with a check that the target is a connected peer.
Core_enet_server_send_CheckPeer(s, peer, nd) ==
    IF ~nd /\ s.host = NULL THEN Throw(s, "AssertHost")
    ELSE IF ~nd /\ ~s.server THEN Throw(s, "AssertServer")
    ELSE IF ~nd /\ ~s.initialized THEN Throw(s, "AssertInitialized")
    ELSE IF peer \notin s.enet.connected THEN Throw(s, "UnknownPeer")
    ELSE PeerSend(s, peer)

Core_enet_server_send(s, peer, nd) ==
    IF ~nd /\ s.host = NULL THEN Throw(s, "AssertHost")
    ELSE IF ~nd /\ ~s.server THEN Throw(s, "AssertServer")
    ELSE IF ~nd /\ ~s.initialized THEN Throw(s, "AssertInitialized")
    ELSE PeerSend(s, peer)

Core_enet_client_send(s, nd) ==
    IF ~nd /\ s.host = NULL THEN Throw(s, "AssertHost")
    ELSE IF ~nd /\ s.conn = NULL THEN Throw(s, "AssertConn")
    ELSE IF ~nd /\ ~s.initialized THEN Throw(s, "AssertInitialized")
    ELSE PeerSend(s, s.conn)

\* Core_enet_deinitialize without the reset of conn.
Core_enet_deinitialize_KeepConn(s) ==
    LET a == IF s.host # NULL
             THEN [EnetHostDestroy(s, s.host) EXCEPT !.host = NULL]
             ELSE s
        b == IF a.initialized
             THEN [EnetDeinitialize(a) EXCEPT !.initialized = FALSE]
             ELSE a
    IN [b EXCEPT !.server = FALSE]

\* Core_enet_deinitialize without the guard of enet_deinitialize.
Core_enet_deinitialize_Unguarded(s) ==
    LET a == IF s.host # NULL
             THEN [EnetHostDestroy(s, s.host) EXCEPT !.host = NULL]
             ELSE s
        b == [EnetDeinitialize(a) EXCEPT !.initialized = FALSE]
    IN [b EXCEPT !.conn = NULL, !.server = FALSE]

\* Core_enet_deinitialize without the reset of server.
Core_enet_deinitialize_KeepServer(s) ==
    LET a == IF s.host # NULL
             THEN [EnetHostDestroy(s, s.host) EXCEPT !.host = NULL]
             ELSE s
        b == IF a.initialized
             THEN [EnetDeinitialize(a) EXCEPT !.initialized = FALSE]
             ELSE a
    IN [b EXCEPT !.conn = NULL]

Core_enet_deinitialize(s) ==
    LET a == IF s.host # NULL
             THEN [EnetHostDestroy(s, s.host) EXCEPT !.host = NULL]
             ELSE s
        b == IF a.initialized
             THEN [EnetDeinitialize(a) EXCEPT !.initialized = FALSE]
             ELSE a
    IN [b EXCEPT !.conn = NULL, !.server = FALSE]

\* The events enet_host_service can report, each for one peer.
Events == [kind : {"Connect", "Disconnect", "Receive"}, peer : Peers]

\* Whether the binding, in state en, can report e: a Connect answers a
\* pending request or, on a listening host, announces a new inbound peer; a
\* Disconnect ends a connection or a pending request; data arrives from a
\* connected peer only.
EventOK(en, e) ==
    CASE e.kind = "Connect" ->
            \/ e.peer \in en.peers \ en.connected
            \/ en.listening /\ e.peer \in FreePeer(en)
      [] e.kind = "Disconnect" -> e.peer \in en.peers
      [] OTHER -> e.peer \in en.connected

EventApply(en, e) ==
    CASE e.kind = "Connect" ->
            [en EXCEPT !.peers = @ \cup {e.peer}, !.connected = @ \cup {e.peer}]
      [] e.kind = "Disconnect" ->
            [en EXCEPT !.peers = @ \ {e.peer}, !.connected = @ \ {e.peer},
                       !.closing = @ \ {e.peer}]
      [] OTHER -> en

\* The event sequences of length at most n the binding can report from
\* state en, one event after the other.
RECURSIVE Reports(_, _)
Reports(en, n) ==
    IF n = 0 THEN {<<>>}
    ELSE {<<>>} \cup
         UNION {{<<e>> \o r : r \in Reports(EventApply(en, e), n - 1)} :
                   e \in {x \in Events : EventOK(en, x)}}

\* The packet an event carries: only a Receive has one, a fresh allocation
\* of the binding, named n after the place in the log of the
\* enet_host_service call that answered it.
PacketOf(e, n) == IF e.kind = "Receive" THEN n ELSE NULL

\* The loop of Core_enet_pollevents without the enet_packet_destroy of its
\* body.
RECURSIVE PollLoop_Leak(_, _)
PollLoop_Leak(s, evs) ==
    LET c == Log(s, "serviceEvents", s.host) IN
    IF evs = <<>> THEN c
    ELSE LET e == Head(evs)
             d == [Log(c, e.kind, e.peer) EXCEPT !.enet = EventApply(@, e)]
         IN PollLoop_Leak(d, Tail(evs))

\* The loop of Core_enet_pollevents: one enet_host_service per turn, the
\* event's packet destroyed in the body, until the binding reports no event.
RECURSIVE PollLoop(_, _)
PollLoop(s, evs) ==
    LET c == Log(s, "serviceEvents", s.host) IN
    IF evs = <<>> THEN c
    ELSE LET e == Head(evs)
             d == [Log(c, e.kind, e.peer) EXCEPT !.enet = EventApply(@, e)]
         IN PollLoop(Log(d, "packetDestroy", PacketOf(e, Len(c.calls))), Tail(evs))

\* evs are the events the binding reports during the call.  There is no
\* check of host: a null host reaches enet_host_service.
Core_enet_pollevents(s, evs) ==
    IF s.host = NULL THEN Throw(Log(s, "serviceEvents", NULL), "UB")
    ELSE PollLoop(s, evs)

\* The request of a graceful disconnect of conn, when there is one.
Core_enet_client_disconnect(s) ==
    IF s.conn = NULL THEN s
    ELSE LET c == Log(s, "disconnect", s.conn) IN
         IF s.conn \in s.enet.peers
         THEN [c EXCEPT !.enet.closing = @ \cup {s.conn}]
         ELSE c

--------------------------------------------------------------------------
\* listener.cpp: the registry is the one pointer listener; l is its value.

\* InstallListener that keeps a bundle already installed.
InstallListener_KeepFirst(l, protocol, nd) ==
    IF ~nd /\ protocol = NULL THEN [listener |-> l, err |-> "AssertProtocol"]
    ELSE IF l # NULL THEN [listener |-> l, err |-> "none"]
    ELSE [listener |-> protocol, err |-> "none"]

\* InstallListener: the registry after the call, with the error it ends with.
InstallListener(l, protocol, nd) ==
    IF ~nd /\ protocol = NULL THEN [listener |-> l, err |-> "AssertProtocol"]
    ELSE [listener |-> protocol, err |-> "none"]

\* LocateListener: the bundle returned, with the error it ends with.
LocateListener(l, nd) ==
    IF ~nd /\ l = NULL THEN [ret |-> NULL, err |-> "AssertListener"]
    ELSE [ret |-> l, err |-> "none"]

--------------------------------------------------------------------------
\* net.cpp: the endpoint descriptors.  An operation that throws leaves the
\* statements after the throw undone.

Ok(s) == s.err = "none"

\* client::connect with the binding answering res, h and p.
client_connect(s, res, h, p) ==
    LET a == Core_enet_initialize(s, res) IN
    IF ~Ok(a) THEN a
    ELSE LET b == Core_enet_client_create(a, h) IN
         IF ~Ok(b) THEN b ELSE Core_enet_client_connect(b, p)

\* server::connect with the binding answering res and h.
server_connect(s, res, h) ==
    LET a == Core_enet_initialize(s, res) IN
    IF ~Ok(a) THEN a ELSE Core_enet_server_create(a, h)

--------------------------------------------------------------------------
\* Actions

\* What the binding may answer to a create or a connect from state s: NULL,
\* or a handle that is not in use.
HostAnswers(s) == {NULL} \cup (Hosts \ s.enet.hosts)
PeerAnswers(s) == {NULL} \cup FreePeer(s.enet)
InitAnswers == {0, -1}

TypeOK ==
    /\ server \in BOOLEAN /\ initialized \in BOOLEAN
    /\ host \in Hosts \cup {NULL} /\ conn \in Peers \cup {NULL}
    /\ setup \in BOOLEAN /\ connecting \in BOOLEAN
    /\ listener \in Bundles \cup {NULL}
    /\ ndebug \in BOOLEAN /\ alive \in BOOLEAN
    /\ enet.inits \in 0..(MaxExtraInits + 1)
    /\ enet.hosts \subseteq Hosts
    /\ enet.connected \subseteq enet.peers /\ enet.peers \subseteq Peers
    /\ enet.closing \subseteq enet.peers

Init ==
    /\ server = FALSE /\ initialized = FALSE /\ host = NULL /\ conn = NULL
    /\ setup = FALSE /\ connecting = FALSE
    /\ listener = NULL
    /\ enet = EnetInit
    /\ ndebug \in BOOLEAN
    /\ alive = TRUE
    /\ last = [op |-> "start", err |-> "none", calls |-> <<>>, pre |-> Session(Cur)]

\* The operation named op ran from the current state and ended in s.
Commit(op, s) ==
    /\ server' = s.server /\ initialized' = s.initialized
    /\ host' = s.host /\ conn' = s.conn /\ enet' = s.enet
    /\ alive' = (s.err \notin Fatal)
    /\ last' = [op |-> op, err |-> s.err, calls |-> s.calls, pre |-> Session(Cur)]
    /\ UNCHANGED <<ndebug, listener>>

\* The operations of core.cpp.  client::poll, server::poll, client::send and
\* server::send only forward to Core_enet_pollevents, Core_enet_client_send
\* and Core_enet_server_send: Pollevents, ClientSend and ServerSend are those
\* calls too.
Initialize ==
    /\ alive /\ enet.inits <= MaxExtraInits
    /\ \E res \in InitAnswers : Commit("initialize", Core_enet_initialize(Cur, res))
    /\ UNCHANGED <<setup, connecting>>

ServerCreate ==
    /\ alive
    /\ \E h \in HostAnswers(Cur) : Commit("createServer", Core_enet_server_create(Cur, h))
    /\ UNCHANGED <<setup, connecting>>

ClientCreate ==
    /\ alive
    /\ \E h \in HostAnswers(Cur) : Commit("createClient", Core_enet_client_create(Cur, h))
    /\ UNCHANGED <<setup, connecting>>

ClientConnect ==
    /\ alive
    /\ \E p \in PeerAnswers(Cur) : Commit("clientConnect", Core_enet_client_connect(Cur, p))
    /\ UNCHANGED <<setup, connecting>>

ServerSend ==
    /\ alive
    /\ \E peer \in Peers \cup {NULL} :
          Commit("serverSend", Core_enet_server_send(Cur, peer, ndebug))
    /\ UNCHANGED <<setup, connecting>>

ClientSend ==
    /\ alive
    /\ Commit("clientSend", Core_enet_client_send(Cur, ndebug))
    /\ UNCHANGED <<setup, connecting>>

Pollevents ==
    /\ alive
    /\ \E evs \in Reports(enet, MaxEvents) :
          Commit("poll", Core_enet_pollevents(Cur, evs))
    /\ UNCHANGED <<setup, connecting>>

Deinitialize ==
    /\ alive
    /\ Commit("shutdown", Core_enet_deinitialize(Cur))
    /\ UNCHANGED <<setup, connecting>>

\* The operations of the registry (listener.cpp).
Install ==
    /\ alive
    /\ \E protocol \in Bundles \cup {NULL} :
          LET r == InstallListener(listener, protocol, ndebug) IN
          /\ listener' = r.listener
          /\ alive' = (r.err \notin Fatal)
          /\ last' = [op |-> "install", err |-> r.err,
                      calls |-> <<Call("InstallListener", protocol)>>,
                      pre |-> Session(Cur)]
    /\ UNCHANGED <<server, initialized, host, conn, setup, connecting, enet, ndebug>>

Locate ==
    /\ alive
    /\ LET r == LocateListener(listener, ndebug) IN
          /\ alive' = (r.err \notin Fatal)
          /\ last' = [op |-> "lookup", err |-> r.err,
                      calls |-> <<Call("LocateListener", r.ret)>>,
                      pre |-> Session(Cur)]
    /\ UNCHANGED <<server, initialized, host, conn, setup, connecting, listener, enet,
                   ndebug>>

\* The operations of the endpoint descriptors (net.cpp).
ClientEndpointConnect ==
    /\ alive /\ enet.inits <= MaxExtraInits
    /\ \E res \in InitAnswers, h \in HostAnswers(Cur), p \in Peers \cup {NULL} :
          LET s == client_connect(Cur, res, h, p) IN
          \* an answer is drawn only for a call that is made, and the peer
          \* answered is the free slot of the host just created
          /\ (res # 0 \/ host # NULL) => h = NULL
          /\ (res # 0 \/ host # NULL \/ h = NULL) => p = NULL
          /\ p \in PeerAnswers(Core_enet_client_create(Core_enet_initialize(Cur, res), h))
          /\ Commit("client::connect", s)
          /\ setup' = (IF Ok(s) THEN TRUE ELSE setup)
          /\ connecting' = (IF Ok(s) THEN TRUE ELSE connecting)

ClientEndpointDisconnect ==
    /\ alive
    /\ LET s == Core_enet_client_disconnect(Cur) IN
          /\ Commit("client::disconnect", s)
          /\ connecting' = (IF Ok(s) THEN FALSE ELSE connecting)
    /\ UNCHANGED setup

\* client::shutdown and server::shutdown have the same body.
EndpointShutdown ==
    /\ alive
    /\ Commit("endpoint::shutdown", Core_enet_deinitialize(Cur))
    /\ setup' = FALSE /\ connecting' = FALSE

\* server::connect with setup set before the calls of the core.
ServerEndpointConnect_SetupFirst ==
    /\ alive /\ enet.inits <= MaxExtraInits
    /\ \E res \in InitAnswers, h \in HostAnswers(Cur) :
          LET s == server_connect(Cur, res, h) IN
          /\ (res # 0 \/ host # NULL) => h = NULL
          /\ Commit("server::connect", s)
          /\ setup' = TRUE
          /\ connecting' = (IF Ok(s) THEN TRUE ELSE connecting)

ServerEndpointConnect ==
    /\ alive /\ enet.inits <= MaxExtraInits
    /\ \E res \in InitAnswers, h \in HostAnswers(Cur) :
          LET s == server_connect(Cur, res, h) IN
          /\ (res # 0 \/ host # NULL) => h = NULL
          /\ Commit("server::connect", s)
          /\ setup' = (IF Ok(s) THEN TRUE ELSE setup)
          /\ connecting' = (IF Ok(s) THEN TRUE ELSE connecting)

Next ==
    \/ Initialize
    \/ ServerCreate
    \/ ClientCreate
    \/ ClientConnect
    \/ ServerSend
    \/ ClientSend
    \/ Pollevents
    \/ Deinitialize
    \/ ClientEndpointConnect
    \/ ClientEndpointDisconnect
    \/ ServerEndpointConnect
    \/ EndpointShutdown

Spec == Init /\ [][Next]_vars

\* The program as an application drives it (main.cpp): through the endpoint
\* descriptors and the registry, polling and sending in between.
NextApp ==
    \/ Install
    \/ Locate
    \/ ClientEndpointConnect
    \/ ClientEndpointDisconnect
    \/ ServerEndpointConnect
    \/ EndpointShutdown
    \/ Pollevents
    \/ ClientSend
    \/ ServerSend

SpecApp == Init /\ [][NextApp]_vars

--------------------------------------------------------------------------
\* Properties

\* The session state after construction.
SessionInit == [server |-> FALSE, initialized |-> FALSE, host |-> NULL, conn |-> NULL]

IsShutdown == last.op \in {"shutdown", "endpoint::shutdown"}
IsCreate == last.op \in {"createServer", "createClient"}

\* Whether the binding call f with answer or argument arg is in the log.
Called(f) == \E i \in 1..Len(last.calls) : last.calls[i].f = f

\* Whether every call of the log that the binding can refuse was granted.
Granted(calls) ==
    \A i \in 1..Len(calls) :
        /\ calls[i].f = "transportInit" => calls[i].arg = 0
        /\ calls[i].f \in {"createHost", "connect"} => calls[i].arg # NULL

\* C1: a shutdown, from whatever state, leaves the session state equal to
\* the initial one: not initialized, not a server, no host, no active peer.
C1_ShutdownResets ==
    IsShutdown => Session(Cur) = SessionInit

\* A shutdown of an initialized session with a host and an active peer.
C1_Witness ==
    /\ IsShutdown
    /\ last.pre.initialized /\ last.pre.host # NULL /\ last.pre.conn # NULL

\* C2: a shutdown of an uninitialized session changes no field, calls
\* neither destroyHost nor transportDeinit and does not fail; no shutdown
\* fails, frees a host that is not live, or deinitializes a binding that has
\* no initialization outstanding.
C2_ShutdownIdempotent ==
    /\ (IsShutdown /\ ~last.pre.initialized) =>
          /\ Session(Cur) = last.pre
          /\ last.calls = <<>>
    /\ IsShutdown => last.err = "none"
    /\ ~enet.unbalanced

\* A shutdown of an uninitialized session.
C2_Witness ==
    IsShutdown /\ ~last.pre.initialized /\ last.pre = SessionInit

\* C3: with a host present, createServer and createClient fail with
\* HostAlreadyExists, do not call createHost, and leave host, role and the
\* active peer as they were.
C3_CreateTwiceFails ==
    (IsCreate /\ last.pre.host # NULL) =>
        /\ last.err = "HostAlreadyExists"
        /\ ~Called("createHost")
        /\ Session(Cur) = last.pre

\* createClient on a session whose host is a server's.
C3_Witness ==
    last.op = "createClient" /\ last.pre.host # NULL /\ last.pre.server

\* C4, as stated: initialize on an initialized session fails with
\* AlreadyInitialized, does not call transportInit and changes nothing.
C4_InitializeTwiceFails ==
    (last.op = "initialize" /\ last.pre.initialized) =>
        /\ last.err = "AlreadyInitialized"
        /\ ~Called("transportInit")
        /\ Session(Cur) = last.pre

\* C5: on a session that is not initialized, createServer and createClient
\* fail with NotInitialized, do not call createHost, and leave host absent
\* and the role as it was.
C5_CreateNeedsInitialize ==
    (IsCreate /\ ~last.pre.initialized) =>
        /\ last.err = "NotInitialized"
        /\ ~Called("createHost")
        /\ host = NULL
        /\ server = last.pre.server

\* createClient on a session that is not initialized.
C5_Witness ==
    last.op = "createClient" /\ ~last.pre.initialized

\* C6: when the binding's createHost fails inside createServer or
\* createClient, the operation fails with HostCreationFailed and the session
\* state is what it was: no host, and no role set.
C6_FailedCreateChangesNothing ==
    (IsCreate /\ Called("createHost") /\ ~Granted(last.calls)) =>
        /\ last.err = "HostCreationFailed"
        /\ Session(Cur) = last.pre
        /\ host = NULL /\ ~server

\* createServer with the binding refusing the host.
C6_Witness ==
    last.op = "createServer" /\ last.calls = <<Call("createHost", NULL)>>

\* C7, as stated: clientConnect on a session whose host was created by
\* createServer fails with NotAClientHost, does not call connect and leaves
\* the active peer absent.
C7_ConnectNeedsClientRole ==
    (last.op = "clientConnect" /\ last.pre.host # NULL /\ last.pre.server) =>
        /\ last.err = "NotAClientHost"
        /\ ~Called("connect")
        /\ conn = NULL

\* C8, as stated: a clientConnect that fails with ConnectRequestFailed leaves
\* the session state as it was, the active peer of an earlier connect
\* included.
C8_FailedConnectChangesNothing ==
    (last.op = "clientConnect" /\ last.err = "ConnectRequestFailed") =>
        Session(Cur) = last.pre

\* C9, as stated: after a connect() of an endpoint descriptor that failed, a
\* following connect() on the same descriptor, with no operation in
\* between and the binding granting every call, succeeds.
C9_Retry ==
    \A ep \in {"client::connect", "server::connect"} :
        (/\ last.op = ep /\ last.err # "none"
         /\ last'.op = ep /\ Granted(last'.calls)) => last'.err = "none"

C9_FailedConnectCanBeRetried == [][C9_Retry]_vars

\* C10: the host is present exactly when the session is initialized and has
\* a role; it is never present while uninitialized, and the server flag is
\* never set while uninitialized or without a host.
C10_HostIffRole ==
    /\ host # NULL <=> (initialized /\ Role # "Uninitialized")
    /\ host # NULL => initialized
    /\ server => (initialized /\ host # NULL)

\* An initialized session whose host a createServer has just created.
C10_Witness ==
    /\ host # NULL /\ initialized /\ server
    /\ last.op = "createServer" /\ last.pre.host = NULL

\* The calls of the log on the binding function f.
CallsOf(f) == {i \in 1..Len(last.calls) : last.calls[i].f = f}

\* The peers that a Connect event has surfaced and that no Disconnect event
\* or shutdown has invalidated since.
LivePeers == enet.connected

\* A send changes nothing in the binding: the peers that are live after it
\* are those that were live before it.
IsClientSend == last.op = "clientSend"
IsServerSend == last.op = "serverSend"

\* C11, as stated: the active peer is present only while the role is Client;
\* it is never present while the role is Server or while there is no host.
C11_ActivePeerOnlyOnClient ==
    conn # NULL => (Role = "Client" /\ host # NULL)

\* C12, as stated: a client send with the active peer requested but not yet
\* announced by a Connect event fails with the not-connected error and calls
\* nothing on the binding; one after the Connect event calls the binding's
\* send on the active peer.
C12_SendNeedsConnectEvent ==
    /\ (IsClientSend /\ last.pre.conn \in enet.peers \ LivePeers) =>
          /\ last.err = "AssertConn"
          /\ last.calls = <<>>
    /\ (IsClientSend /\ last.pre.conn \in LivePeers) =>
          last.calls = <<Call("send", last.pre.conn)>>

\* C13, as stated: a client send with no active peer, uninitialized or
\* without a host halts on a failed precondition and never calls the
\* binding's send.
C13_ClientSendPreconditions ==
    (/\ IsClientSend
     /\ (last.pre.conn = NULL \/ ~last.pre.initialized \/ last.pre.host = NULL)) =>
        /\ last.err \in {"AssertHost", "AssertConn", "AssertInitialized"}
        /\ ~Called("send")

EventKinds == {"Connect", "Disconnect", "Receive"}

CallbackOf(kind) ==
    CASE kind = "Connect" -> "OnConnect"
      [] kind = "Disconnect" -> "OnDisconnect"
      [] OTHER -> "OnReceive"

IsPoll == last.op = "poll"

\* The entries of the log that are events the binding reported.
EventsOf(calls) == {i \in 1..Len(calls) : calls[i].f \in EventKinds}

\* C15, as stated: with a bundle installed, every event the binding reports
\* during a poll is followed, before its packet is destroyed and before the
\* next event is asked for, by one call of the callback of its kind with
\* its peer.
C15_EveryEventDispatched ==
    (IsPoll /\ listener # NULL) =>
        \A i \in EventsOf(last.calls) :
            /\ i < Len(last.calls)
            /\ last.calls[i + 1] = Call(CallbackOf(last.calls[i].f), last.calls[i].arg)

\* C16, as stated: a poll during which the binding reports an event while
\* no bundle is installed halts with the missing-listener error.
C16_PollNeedsListener ==
    (IsPoll /\ listener = NULL /\ EventsOf(last.calls) # {}) =>
        last.err = "AssertListener"

\* C17, as stated: when a poll surfaces the Disconnect event of an active
\* peer whose disconnect the client has requested, the active peer is absent
\* afterwards and a client send then fails with the not-connected error,
\* calling nothing on the binding.
C17_Step ==
    (/\ conn # NULL /\ conn \in enet.closing
     /\ last'.op = "poll"
     /\ \E i \in 1..Len(last'.calls) : last'.calls[i] = Call("Disconnect", conn)) =>
        /\ conn' = NULL
        /\ LET s == [server |-> server', initialized |-> initialized', host |-> host',
                     conn |-> conn', enet |-> enet', calls |-> <<>>, err |-> "none"]
               r == Core_enet_client_send(s, ndebug)
           IN r.err = "AssertConn" /\ r.calls = <<>>

C17_DisconnectClearsActivePeer == [][C17_Step]_vars

\* C18, as stated: the call of a client's disconnect leaves the active peer
\* and the is_connecting flag as they were; with no active peer it changes
\* nothing at all.
C18_Step ==
    last'.op = "client::disconnect" =>
        /\ conn' = conn
        /\ connecting' = connecting
        /\ conn = NULL =>
              UNCHANGED <<server, initialized, host, conn, setup, connecting, listener, enet>>

C18_DisconnectIsOnlyARequest == [][C18_Step]_vars

\* C19, as stated: a shutdown of an endpoint destroys the host only after
\* it has requested the disconnect of every active peer connection whose
\* disconnect had not been requested before.
C19_Step ==
    last'.op = "endpoint::shutdown" =>
        \A p \in (enet.connected \cup ({conn} \cap enet.peers)) \ enet.closing :
            \A j \in 1..Len(last'.calls) :
                last'.calls[j].f = "destroyHost" =>
                    \E i \in 1..(j - 1) : last'.calls[i] = Call("disconnect", p)

C19_ShutdownDisconnectsFirst == [][C19_Step]_vars

\* C20, as stated: is_connecting() is true only while the role is Client and
\* the active peer is present.
C20_ConnectingMeansClientPeer ==
    connecting => (Role = "Client" /\ conn # NULL)

IsInstall == last.op = "install"
IsLookup == last.op = "lookup"

C22_NeverBothRoles ==
    /\ ~(server /\ conn # NULL)
    /\ (IsClientSend /\ last.pre.server) =>
          /\ last.err # "none"
          /\ ~Called("send")

\* The other half of C22, which the code keeps: no operation but a shutdown
\* changes the server flag of a session that has a host.
C22_RoleStep ==
    (host # NULL /\ last'.op \notin {"shutdown", "endpoint::shutdown"}) =>
        server' = server

C22_RoleFixed == [][C22_RoleStep]_vars

\* C23, as stated: a poll on a session without a host halts on a failed
\* precondition; enet_host_service is never called with a null host.
C23_PollNeedsHost ==
    /\ IsPoll => \A i \in CallsOf("serviceEvents") : last.calls[i].arg # NULL
    /\ (IsPoll /\ last.pre.host = NULL) =>
          /\ last.err = "AssertHost"
          /\ last.calls = <<>>

\* C25, as stated: the binding is never deinitialized more often than it
\* was initialized, and after a shutdown of an endpoint no initialization
\* of the binding is outstanding.
C25_InitDeinitBalanced ==
    /\ ~enet.unbalanced
    /\ last.op = "endpoint::shutdown" => enet.inits = 0

\* The packet of the event logged at place i: it bears the place of the
\* enet_host_service call before it.
PacketAt(i) == IF last.calls[i].f = "Receive" THEN i - 1 ELSE NULL

\* C24: a poll on a session with a host asks the binding for events until
\* it answers none, and that answer ends the call: one service call more
\* than events, the last entry of the log being the service call that found
\* nothing.  Every event is followed at once by the destruction of its
\* packet, and the packet of every Receive is destroyed exactly once.
C24_PollDrainsAndFrees ==
    (IsPoll /\ last.pre.host # NULL) =>
        /\ last.err = "none"
        /\ last.calls[Len(last.calls)] = Call("serviceEvents", last.pre.host)
        /\ Cardinality(CallsOf("serviceEvents")) = Cardinality(EventsOf(last.calls)) + 1
        /\ \A i \in EventsOf(last.calls) :
              /\ last.calls[i - 1] = Call("serviceEvents", last.pre.host)
              /\ last.calls[i + 1] = Call("packetDestroy", PacketAt(i))
              /\ last.calls[i].f = "Receive" =>
                    Cardinality({j \in CallsOf("packetDestroy") :
                                    last.calls[j].arg = PacketAt(i)}) = 1
        /\ Cardinality(CallsOf("packetDestroy")) = Cardinality(EventsOf(last.calls))

\* A poll during which the binding reported two events, the second a
\* Receive.
C24_Witness ==
    /\ IsPoll /\ Cardinality(EventsOf(last.calls)) = 2
    /\ \E i \in EventsOf(last.calls) : i > 3 /\ last.calls[i].f = "Receive"

IsEndpointConnect == last.op \in {"client::connect", "server::connect"}

\* C26: with the endpoint descriptors as the only way in, is_setup() is true
\* only while the session is initialized and has a host; it is false after
\* every shutdown, and after a connect() that failed on a session that had
\* no host yet.
C26_SetupMeansHost ==
    /\ setup => (initialized /\ host # NULL)
    /\ last.op = "endpoint::shutdown" => ~setup
    /\ (IsEndpointConnect /\ last.err # "none" /\ last.pre.host = NULL) => ~setup

\* A first connect() whose enet_initialize succeeded and whose host the
\* binding refused.
C26_Witness ==
    /\ IsEndpointConnect /\ last.err = "HostCreationFailed"
    /\ last.pre.host = NULL /\ initialized /\ ~setup

=============================================================================
